---- MODULE Spec2Model ----
(***************************************************************************)
(* Model of the Message envelope of satellite-earth/message (src/index.js). *)
(*                                                                         *)
(* A JavaScript string is a sequence of one-character strings, so that     *)
(* indexOf, substring, slice and split are computed as the code computes   *)
(* them.  A JavaScript value is a record tagged with its kind; an object   *)
(* is a function from keys (strings) to values.                            *)
(***************************************************************************)
EXTENDS Integers, Sequences, FiniteSets, TLC

VARIABLES
    ctor,       \* "ok", or the error the constructor threw (no envelope then)
    signed,     \* this._signed_
    params,     \* this._params_
    verified,   \* this.verified
    verifyCall, \* the pending verify(): its position and the locals it holds
    signCall,   \* the pending sign(): its position
    last        \* the operation that ran last, its argument and its outcome

vars == <<ctor, signed, params, verified, verifyCall, signCall, last>>

-----------------------------------------------------------------------------
(* JavaScript values *)

Undefined == [t |-> "undefined"]

Null == [t |-> "null"]

Str(s) == [t |-> "string", s |-> s]

Num(n) == [t |-> "number", n |-> n]

Bool(b) == [t |-> "boolean", b |-> b]

Obj(m) == [t |-> "object", o |-> m]

EmptyMap == [k \in {} |-> Undefined]

\* typeof v
TypeOf(v) == IF v.t = "null" THEN "object" ELSE v.t

\* ToBoolean(v), as used by !, && and ||
Truthy(v) ==
    CASE v.t = "undefined" -> FALSE
      [] v.t = "null"      -> FALSE
      [] v.t = "string"    -> v.s # <<>>
      [] v.t = "number"    -> v.n # 0
      [] v.t = "boolean"   -> v.b
      [] OTHER             -> TRUE

\* obj[key]: undefined when the key is missing
Get(m, k) == IF k \in DOMAIN m THEN m[k] ELSE Undefined

\* obj[key] = value
Put(m, k, v) == (k :> v) @@ m

\* { ...a, ...b } and the key-by-key copy loops: b's keys overwrite a's
Merge(a, b) == b @@ a

-----------------------------------------------------------------------------
(* Strings *)

K_signed == <<"_", "s", "i", "g", "n", "e", "d", "_">>

K_params == <<"_", "p", "a", "r", "a", "m", "s", "_">>

K_sig == <<"s", "i", "g">>

K_alias == <<"a", "l", "i", "a", "s">>

K_address == <<"a", "d", "d", "r", "e", "s", "s">>

K_name == <<"n", "a", "m", "e">>

K_n == <<"n">>

\* s.slice(from) for 0 <= from
Slice(s, from) == IF from >= Len(s) THEN <<>> ELSE SubSeq(s, from + 1, Len(s))

\* s.substring(from, to) for 0 <= from <= to
Substring(s, from, to) ==
    LET hi == IF to > Len(s) THEN Len(s) ELSE to
    IN  IF from >= hi THEN <<>> ELSE SubSeq(s, from + 1, hi)

\* whether p occurs in s at the 0-based position i
OccursAt(s, p, i) ==
    /\ i + Len(p) <= Len(s)
    /\ \A j \in 1..Len(p) : s[i + j] = p[j]

\* s.indexOf(p): the first 0-based position of p in s, -1 when there is none
IndexOf(s, p) ==
    LET hits == {i \in 0..Len(s) : OccursAt(s, p, i)}
    IN  IF hits = {} THEN -1 ELSE CHOOSE i \in hits : \A j \in hits : i <= j

RECURSIVE Split(_, _)
\* s.split(c) for a one-character separator c
Split(s, c) ==
    LET i == IndexOf(s, <<c>>)
    IN  IF i = -1 THEN <<s>>
        ELSE <<Substring(s, 0, i)>> \o Split(Slice(s, i + 1), c)

Digit == <<"0", "1", "2", "3", "4", "5", "6", "7", "8", "9">>

RECURSIVE Digits(_)
\* the decimal text of a natural number
Digits(n) == IF n < 10 THEN <<Digit[n + 1]>> ELSE Digits(n \div 10) \o <<Digit[(n % 10) + 1]>>

\* the text JSON.stringify gives a defined value.  An object's keys are written
\* in the order CHOOSE takes them: the model's objects carry no insertion
\* order, and the objects it serialises hold at most one key.
RECURSIVE JsonText(_)
JsonText(v) ==
    LET RECURSIVE Members(_, _)
        Members(m, ks) ==
            IF ks = {} THEN <<>>
            ELSE LET k == CHOOSE x \in ks : TRUE
                     rest == Members(m, ks \ {k})
                     one == <<"\"">> \o k \o <<"\"", ":">> \o JsonText(m[k])
                 IN  IF rest = <<>> THEN one ELSE one \o <<",">> \o rest
    IN  CASE v.t = "string"  -> <<"\"">> \o v.s \o <<"\"">>
          [] v.t = "number"  -> Digits(v.n)
          [] v.t = "boolean" -> IF v.b THEN <<"t", "r", "u", "e">>
                                       ELSE <<"f", "a", "l", "s", "e">>
          [] v.t = "null"    -> <<"n", "u", "l", "l">>
          [] v.t = "object"  ->
                <<"{">> \o Members(v.o, {k \in DOMAIN v.o : v.o[k].t # "undefined"}) \o <<"}">>

\* JSON.stringify(v): a string, or undefined for undefined
JSONstringify(v) == IF v.t = "undefined" THEN Undefined ELSE Str(JsonText(v))

\* the percent escapes of the characters the model's URIs use
PctCode == (<<"2", "6">> :> "&") @@ (<<"3", "D">> :> "=") @@ (<<"5", "F">> :> "_")
           @@ (<<"2", "5">> :> "%") @@ (<<"3", "F">> :> "?") @@ (<<"2", "3">> :> "#")
           @@ (<<"2", "2">> :> "\"") @@ (<<"7", "B">> :> "{") @@ (<<"7", "D">> :> "}")
           @@ (<<"3", "A">> :> ":") @@ (<<"2", "C">> :> ",")

RECURSIVE DecodeFrom(_)
\* decodeURIComponent on a string: [ok, s]; ok is FALSE for a malformed
\* escape (URIError)
DecodeFrom(s) ==
    IF s = <<>> THEN [ok |-> TRUE, s |-> <<>>]
    ELSE IF s[1] = "%"
         THEN IF Len(s) >= 3 /\ <<s[2], s[3]>> \in DOMAIN PctCode
              THEN LET r == DecodeFrom(Slice(s, 3))
                   IN  [ok |-> r.ok, s |-> <<PctCode[<<s[2], s[3]>>]>> \o r.s]
              ELSE [ok |-> FALSE, s |-> <<>>]
         ELSE LET r == DecodeFrom(Slice(s, 1))
              IN  [ok |-> r.ok, s |-> <<s[1]>> \o r.s]

\* decodeURIComponent(x) where x is kvp[0] or kvp[1]: a missing element is
\* undefined, which is decoded as the text "undefined"
DecodeURIComponent(kvp, i) ==
    IF i <= Len(kvp) THEN DecodeFrom(kvp[i])
    ELSE [ok |-> TRUE, s |-> <<"u", "n", "d", "e", "f", "i", "n", "e", "d">>]

-----------------------------------------------------------------------------
(* constructor *)

\* the loop over Object.keys(payload) for one decoded key and value; payload
\* maps each bucket prefix to its bucket
RouteKey(payload, key, val) ==
    [prefix \in DOMAIN payload |->
        IF IndexOf(key, prefix) # -1
        THEN Put(payload[prefix], Substring(key, Len(prefix), Len(key)), Str(val))
        ELSE payload[prefix]]

RECURSIVE ParsePairs(_, _)
\* the loop over s.split('&'): [ok, payload]; ok is FALSE when a
\* decodeURIComponent threw
ParsePairs(segs, payload) ==
    IF segs = <<>> THEN [ok |-> TRUE, payload |-> payload]
    ELSE LET kvp == Split(Head(segs), "=")
             key == DecodeURIComponent(kvp, 1)
             val == DecodeURIComponent(kvp, 2)
         IN  IF ~key.ok \/ ~val.ok
             THEN [ok |-> FALSE, payload |-> payload]
             ELSE ParsePairs(Tail(segs), RouteKey(payload, key.s, val.s))

\* the string branch: the payload parsed from a URI
ParseURI(data) ==
    LET i0 == IndexOf(data, <<"?">>)
        i1 == IndexOf(data, <<"#">>)
        i  == IF i0 > i1 THEN i0 ELSE i1
        s  == IF i > -1 THEN Slice(data, i + 1) ELSE data
    IN  ParsePairs(Split(s, "&"), (K_signed :> EmptyMap) @@ (K_params :> EmptyMap))

\* the loop that converts the values of the signed dict to strings
StringifySigned(m) ==
    [k \in DOMAIN m |-> IF TypeOf(m[k]) # "string" THEN JSONstringify(m[k]) ELSE m[k]]

\* x || {} for a bucket read from the payload; the buckets the model passes
\* in are objects
BucketOrEmpty(v) == IF Truthy(v) THEN v.o ELSE EmptyMap

\* new Message(data): [res, e]; res is "ok" and e the envelope built, or res
\* is the error thrown and there is no envelope
Constructor(data) ==
    LET payloadDecl == Undefined  \* let payload; (what line 26 tests)
        none == [signed |-> EmptyMap, params |-> EmptyMap, verified |-> FALSE]
        thrown(err) == [res |-> err, e |-> none]
        built(payload) ==
            [res |-> "ok",
             e   |-> [signed   |-> StringifySigned(BucketOrEmpty(Get(payload, K_signed))),
                      params   |-> BucketOrEmpty(Get(payload, K_params)),
                      verified |-> FALSE]]
    IN  IF TypeOf(data) = "object"
        THEN IF data.t = "null"
             THEN thrown("TypeError")  \* data._signed_ of null
             ELSE IF Truthy(Get(data.o, K_signed))
                  THEN built(data.o)
                  ELSE built(K_signed :> data)
        ELSE IF TypeOf(data) = "string"
        THEN LET parsed == ParseURI(data.s)
             IN  IF parsed.ok
                 THEN built([prefix \in DOMAIN parsed.payload |-> Obj(parsed.payload[prefix])])
                 ELSE thrown("URIError")
        ELSE IF TypeOf(payloadDecl) = "undefined"
        THEN built(EmptyMap)
        ELSE thrown("InvalidInput")

-----------------------------------------------------------------------------
(* @satellite-earth/dev-utils, as far as the envelope uses it *)

UuidLen == 40

\* utils.utf8ToHex on the labels the model uses: '0x' and two hex digits for
\* each character
HexOfChar == ("a" :> <<"6", "1">>) @@ ("b" :> <<"6", "2">>)

RECURSIVE HexDigits(_)
HexDigits(label) ==
    IF label = <<>> THEN <<>> ELSE HexOfChar[Head(label)] \o HexDigits(Tail(label))

utf8ToHex(label) == <<"0", "x">> \o HexDigits(label)

RECURSIVE TrimZeros(_)
TrimZeros(s) == IF s # <<>> /\ Head(s) = "0" THEN TrimZeros(Tail(s)) ELSE s

\* utils.zcut: the hex text without its '0x' and without zeros on the left
zcut(hex) ==
    TrimZeros(IF Substring(hex, 0, 2) = <<"0", "x">> THEN Slice(hex, 2) ELSE hex)

\* utils.getMessageUUID(message): the first 40 characters of the signature,
\* its hex prefix excluded
getMessageUUID(sig) ==
    Substring(IF Substring(sig, 0, 2) = <<"0", "x">> THEN Slice(sig, 2) ELSE sig,
              0, UuidLen)

\* the characters of the model that encodeURIComponent escapes, with their
\* escapes; letters, digits and '_' are written as they are
EscapeOf == ("&" :> <<"%", "2", "6">>) @@ ("=" :> <<"%", "3", "D">>)
            @@ ("%" :> <<"%", "2", "5">>) @@ ("?" :> <<"%", "3", "F">>)
            @@ ("#" :> <<"%", "2", "3">>) @@ ("\"" :> <<"%", "2", "2">>)
            @@ ("{" :> <<"%", "7", "B">>) @@ ("}" :> <<"%", "7", "D">>)
            @@ (":" :> <<"%", "3", "A">>) @@ ("," :> <<"%", "2", "C">>)

RECURSIVE EncodeText(_)
\* encodeURIComponent on a string
EncodeText(s) ==
    IF s = <<>> THEN <<>>
    ELSE (IF Head(s) \in DOMAIN EscapeOf THEN EscapeOf[Head(s)] ELSE <<Head(s)>>)
         \o EncodeText(Tail(s))

\* encodeURIComponent(v): a value that is no string is converted by String(v),
\* which for the numbers, booleans and null of the model is its JSON text
encodeURIComponent(v) == EncodeText(IF v.t = "string" THEN v.s ELSE JsonText(v))

RECURSIVE EncodePairs(_, _, _)
\* the pairs <prefix><key>=<value> of the keys ks of one bucket, joined by
\* '&', in the order CHOOSE takes the keys
EncodePairs(prefix, m, ks) ==
    IF ks = {} THEN <<>>
    ELSE LET k == CHOOSE x \in ks : TRUE
             one == EncodeText(prefix \o k) \o <<"=">> \o encodeURIComponent(m[k])
             rest == EncodePairs(prefix, m, ks \ {k})
         IN  IF rest = <<>> THEN one ELSE one \o <<"&">> \o rest

\* utils.encodeMessageURI(payload): the pairs of the signed bucket, then those
\* of the params bucket
encodeMessageURI(p) ==
    LET s == EncodePairs(K_signed, p.signed, DOMAIN p.signed)
        q == EncodePairs(K_params, p.params, DOMAIN p.params)
    IN  IF s = <<>> THEN q ELSE IF q = <<>> THEN s ELSE s \o <<"&">> \o q

\* the rank of a character in the order localeCompare uses for the model's
\* characters
Rank(c) == CHOOSE i \in 1..16 :
    <<"0", "1", "2", "3", "4", "5", "6", "7", "8", "9", "a", "b", "c", "d", "e", "f">>[i] = c

RECURSIVE localeCompare(_, _)
\* a.localeCompare(b) on hex text: -1, 0 or 1
localeCompare(a, b) ==
    IF a = <<>> /\ b = <<>> THEN 0
    ELSE IF a = <<>> THEN -1
    ELSE IF b = <<>> THEN 1
    ELSE IF Head(a) = Head(b) THEN localeCompare(Tail(a), Tail(b))
    ELSE IF Rank(Head(a)) < Rank(Head(b)) THEN -1 ELSE 1

-----------------------------------------------------------------------------
(* the envelope's methods, on the envelope e = [signed, params, verified];  *)
(* each gives [res, e, ret]: "ok" or the error thrown, the envelope after   *)
(* the call, and the value returned                                        *)

This == [signed |-> signed, params |-> params, verified |-> verified]

Ok(e, ret) == [res |-> "ok", e |-> e, ret |-> ret]

Throw(err, e) == [res |-> err, e |-> e, ret |-> Undefined]

\* get signature
signature(e) == Get(e.params, K_sig)

\* clearSig() that starts the params afresh
clearSig_wipesParams(e) == [e EXCEPT !.params = K_sig :> Undefined, !.verified = FALSE]

\* clearSig() that drops the signature and keeps the flag
clearSig_keepsVerified(e) == [e EXCEPT !.params = Put(@, K_sig, Undefined)]

\* clearSig() that resets the flag and keeps the signature
clearSig_keepsSig(e) == [e EXCEPT !.verified = FALSE]

\* clearSig()
clearSig(e) == [e EXCEPT !.params = Put(@, K_sig, Undefined), !.verified = FALSE]

\* addSigned(obj) without the call of clearSig
addSigned_noClear(e, obj) == Ok([e EXCEPT !.signed = Merge(@, obj)], Undefined)

\* addSigned(obj)
addSigned(e, obj) ==
    LET e1 == IF Cardinality(DOMAIN obj) > 0 THEN clearSig(e) ELSE e
    IN  Ok([e1 EXCEPT !.signed = Merge(@, obj)], Undefined)

\* addParams(obj): the call clearSig() names no binding in scope (the method
\* is this.clearSig), so evaluating it throws a ReferenceError
addParams(e, obj) ==
    IF K_alias \in DOMAIN obj \/ K_sig \in DOMAIN obj
    THEN Throw("ReferenceError", e)
    ELSE Ok([e EXCEPT !.params = Merge(@, obj)], Undefined)

\* set authorAlias(alias)
setAuthorAlias(e, alias) ==
    Ok([e EXCEPT !.params = Put(@, K_alias, Str(zcut(utf8ToHex(alias)))),
                 !.verified = FALSE], Undefined)

\* set signature(sig)
setSignature(e, sig) ==
    Ok([e EXCEPT !.params = Put(@, K_sig,
                     Str(IF Substring(sig, 0, 2) = <<"0", "x">> THEN Slice(sig, 2) ELSE sig)),
                 !.verified = FALSE], Undefined)

\* get uuid that gives an empty identity where it should throw
uuid_placeholder(e) ==
    IF Truthy(signature(e))
    THEN Ok(e, Str(getMessageUUID(signature(e).s)))
    ELSE Ok(e, Str(<<>>))

\* get uuid
uuid(e) ==
    IF Truthy(signature(e))
    THEN Ok(e, Str(getMessageUUID(signature(e).s)))
    ELSE Throw("NoSignature", e)

\* compare(that): that is the other envelope
compare(e, that) ==
    LET a == uuid(e)
        b == uuid(that)
    IN  IF a.res # "ok" THEN Throw(a.res, e)
        ELSE IF b.res # "ok" THEN Throw(b.res, e)
        ELSE Ok(e, Num(localeCompare(a.ret.s, b.ret.s)))

\* JSON.parse(JSON.stringify(m)) on a bucket: a new object; a key whose value
\* is undefined is left out, strings, numbers, booleans and null are kept
JsonCopy(m) == [k \in {x \in DOMAIN m : m[x].t # "undefined"} |-> m[k]]

\* get payload that hands out the envelope's own buckets
payload_shared(e) == [signed |-> e.signed, params |-> e.params, own |-> TRUE]

\* get payload: the snapshot; own says whether its buckets are the very
\* objects the envelope holds (they are not: JSON.parse builds new ones)
payload(e) == [signed |-> JsonCopy(e.signed), params |-> JsonCopy(e.params), own |-> FALSE]

\* get uri
uri(e) == encodeMessageURI(payload(e))

\* sign(earth), up to the await: "pending" when the service was called
signStart(e, earth) ==
    IF ~earth THEN Throw("MissingService", e)
    ELSE [res |-> "pending", e |-> e, ret |-> Undefined]

\* signReturn that replaces the params by the returned ones
signReturn_replacesParams(e, outcome) ==
    IF outcome.ok
    THEN LET e1 == [e EXCEPT !.params = outcome.params, !.verified = TRUE]
         IN  Ok(e1, e1)
    ELSE Throw("SigningFailed", e)

\* sign(earth), from the await on: outcome is what earth.signData settled
\* with, [ok |-> TRUE, params |-> the _params_ returned] or [ok |-> FALSE]
signReturn(e, outcome) ==
    IF outcome.ok
    THEN LET e1 == [e EXCEPT !.params = Merge(@, outcome.params), !.verified = TRUE]
         IN  Ok(e1, e1)
    ELSE Throw("SigningFailed", e)

\* verifyStart that calls the service before it looks for the signature
verifyStart_callsFirst(e, earth) ==
    IF ~earth THEN Throw("MissingService", e)
    ELSE [res |-> "pending", e |-> e, ret |-> Get(e.params, K_alias)]

\* verify(earth) and verifySync(earth), up to the service call: "pending"
\* when the service was called, with claimedAlias in ret
verifyStart(e, earth) ==
    IF ~earth THEN Throw("MissingService", e)
    ELSE LET claimedAlias == Get(e.params, K_alias)
         IN  IF ~Truthy(signature(e)) THEN Throw("MissingSignature", e)
             ELSE [res |-> "pending", e |-> e, ret |-> claimedAlias]

\* verifyReturn that saves the resolved alias before it compares
verifyReturn_savesFirst(e, claimedAlias, outcome) ==
    IF ~outcome.ok THEN Throw("VerificationFailed", e)
    ELSE LET e1 == [e EXCEPT !.params = Put(@, K_alias, outcome.alias)]
         IN  IF Truthy(claimedAlias) /\ claimedAlias # outcome.alias
             THEN Throw("AuthorMismatch", e1)
             ELSE Ok([e1 EXCEPT !.verified = TRUE], [e1 EXCEPT !.verified = TRUE])

\* verifyReturn that does not save the resolved alias
verifyReturn_noAdopt(e, claimedAlias, outcome) ==
    IF ~outcome.ok THEN Throw("VerificationFailed", e)
    ELSE IF Truthy(claimedAlias) /\ claimedAlias # outcome.alias
    THEN Throw("AuthorMismatch", e)
    ELSE Ok([e EXCEPT !.verified = TRUE], [e EXCEPT !.verified = TRUE])

\* verifyReturn that looks at the signature again after the await
verifyReturn_rechecks(e, claimedAlias, outcome) ==
    IF ~outcome.ok THEN Throw("VerificationFailed", e)
    ELSE IF ~Truthy(signature(e)) THEN Throw("MissingSignature", e)
    ELSE IF Truthy(claimedAlias) /\ claimedAlias # outcome.alias
    THEN Throw("AuthorMismatch", e)
    ELSE LET e1 == [e EXCEPT !.params = Put(@, K_alias, outcome.alias), !.verified = TRUE]
         IN  Ok(e1, e1)

\* verifyReturn that resets the flag when the verification fails
verifyReturn_resetsOnFailure(e, claimedAlias, outcome) ==
    IF ~outcome.ok THEN Throw("VerificationFailed", [e EXCEPT !.verified = FALSE])
    ELSE IF Truthy(claimedAlias) /\ claimedAlias # outcome.alias
    THEN Throw("AuthorMismatch", [e EXCEPT !.verified = FALSE])
    ELSE LET e1 == [e EXCEPT !.params = Put(@, K_alias, outcome.alias), !.verified = TRUE]
         IN  Ok(e1, e1)

\* verify(earth) and verifySync(earth), from the service's answer on: outcome
\* is [ok |-> TRUE, alias |-> authorship.alias] or [ok |-> FALSE]
verifyReturn(e, claimedAlias, outcome) ==
    IF ~outcome.ok THEN Throw("VerificationFailed", e)
    ELSE IF Truthy(claimedAlias) /\ claimedAlias # outcome.alias
    THEN Throw("AuthorMismatch", e)
    ELSE LET e1 == [e EXCEPT !.params = Put(@, K_alias, outcome.alias), !.verified = TRUE]
         IN  Ok(e1, e1)

\* verifySync that saves the resolved alias without comparing it
verifySync_noCompare(e, earth, outcome) ==
    IF ~earth THEN Throw("MissingService", e)
    ELSE IF ~Truthy(signature(e)) THEN Throw("MissingSignature", e)
    ELSE IF ~outcome.ok THEN Throw("VerificationFailed", e)
    ELSE LET e1 == [e EXCEPT !.params = Put(@, K_alias, outcome.alias), !.verified = TRUE]
         IN  Ok(e1, e1)

\* verifySync(earth, blockNumber): outcome is what earth.verifyDataSync does,
\* [ok |-> TRUE, alias |-> authorship.alias] or [ok |-> FALSE] when it throws
verifySync(e, earth, outcome) ==
    IF ~earth THEN Throw("MissingService", e)
    ELSE LET claimedAlias == Get(e.params, K_alias)
         IN  IF ~Truthy(signature(e)) THEN Throw("MissingSignature", e)
             ELSE IF ~outcome.ok THEN Throw("VerificationFailed", e)
             ELSE IF Truthy(claimedAlias) /\ claimedAlias # outcome.alias
             THEN Throw("AuthorMismatch", e)
             ELSE LET e1 == [e EXCEPT !.params = Put(@, K_alias, outcome.alias),
                                      !.verified = TRUE]
                  IN  Ok(e1, e1)

-----------------------------------------------------------------------------
(* the inputs the operations are run with *)

S_hi == <<"h", "i">>

S_ab == <<"a", "b">>

S_0xab == <<"0", "x", "a", "b">>

\* forty hex characters
Hex40 == [i \in 1..UuidLen |-> IF i % 2 = 1 THEN "a" ELSE "b"]

\* the hex text of the aliases "a" and "b"
AliasA == Str(zcut(utf8ToHex(<<"a">>)))

AliasB == Str(zcut(utf8ToHex(<<"b">>)))

Addr == Str(<<"c", "0">>)

\* "_signed_name=hi&_params_sig=0x" and forty hex characters
UriScenario ==
    K_signed \o K_name \o <<"=">> \o S_hi \o <<"&">> \o K_params \o K_sig
             \o <<"=", "0", "x">> \o Hex40

\* "h?x#_signed_n=1&_params_alias=": a query after '#', an empty alias
UriAfterHash ==
    <<"h", "?", "x", "#">> \o K_signed \o K_n \o <<"=", "1", "&">> \o K_params \o K_alias
                          \o <<"=">>

\* "_signed_n=%": a malformed escape
UriMalformed == K_signed \o K_n \o <<"=", "%">>

\* "x_signed_y=1&_signed__params_k=hi&z=2": a prefix inside a key, a key with
\* both prefixes, a key with none
UriRouting ==
    <<"x">> \o K_signed \o <<"y", "=", "1", "&">> \o K_signed \o K_params
            \o <<"k", "=">> \o S_hi \o <<"&", "z", "=", "2">>

\* what new Message() is called with
CtorInputs ==
    { Undefined, Null, Num(7), Bool(TRUE),
      Obj(EmptyMap),
      Obj((K_name :> Str(S_hi)) @@ (K_n :> Num(1))),
      Obj((K_signed :> Obj(K_name :> Str(S_hi)))
          @@ (K_params :> Obj((K_sig :> Str(S_ab)) @@ (K_alias :> AliasB)))),
      Obj((K_signed :> Obj(K_n :> Bool(FALSE)))
          @@ (K_params :> Obj(K_sig :> Str(S_0xab)))),
      Obj(K_params :> Obj(K_sig :> Str(S_ab))),
      Str(UriScenario), Str(UriAfterHash), Str(UriMalformed), Str(UriRouting) }

\* what addSigned is called with
SignedArgs == { EmptyMap, K_name :> Str(S_hi), K_n :> Num(1) }

\* what addParams is called with
ParamsArgs ==
    { EmptyMap, K_alias :> AliasA, K_sig :> Str(S_0xab), K_address :> Addr }

\* the labels the authorAlias setter is called with
AliasLabels == { <<>>, <<"a">> }

\* the texts the signature setter is called with
SigArgs == { S_ab, S_0xab }

\* the other envelope of compare(that): only its params are read
ThatArgs ==
    { [signed |-> EmptyMap, params |-> m, verified |-> FALSE] :
        m \in { EmptyMap, K_sig :> Str(S_ab), K_sig :> Str(<<"0", "x">> \o Hex40) } }

\* what a caller does to a snapshot it got from the payload accessor: it sets
\* a key of one bucket, or deletes it (val undefined)
SnapshotEdits ==
    { [bucket |-> "signed", key |-> K_name, val |-> Str(S_ab)],
      [bucket |-> "params", key |-> K_sig, val |-> Undefined],
      [bucket |-> "params", key |-> K_alias, val |-> AliasA] }

\* whether an Earth API instance is passed
EarthArgs == BOOLEAN

\* how earth.signData settles
SignOutcomes ==
    { [ok |-> FALSE],
      [ok |-> TRUE, params |-> (K_sig :> Str(S_ab)) @@ (K_address :> Addr)],
      [ok |-> TRUE, params |-> (K_sig :> Str(Hex40)) @@ (K_address :> Addr)
                               @@ (K_alias :> AliasA)] }

\* how earth.verifyData and earth.verifyDataSync settle
VerifyOutcomes ==
    { [ok |-> FALSE], [ok |-> TRUE, alias |-> AliasA], [ok |-> TRUE, alias |-> AliasB] }

-----------------------------------------------------------------------------
(* the state machine *)

\* how many calls of sign and verify may wait for the service at once
MaxPending == 1

NoCall == [pc |-> "idle"]

\* the first operation is the constructor
Init ==
    \E data \in CtorInputs :
        LET r == Constructor(data)
        IN  /\ ctor = r.res
            /\ signed = r.e.signed
            /\ params = r.e.params
            /\ verified = r.e.verified
            /\ verifyCall = NoCall
            /\ signCall = NoCall
            /\ last = [op |-> "new", arg |-> data, res |-> r.res, ret |-> Undefined,
                       was |-> FALSE]

\* an envelope exists
Alive == ctor = "ok"

\* no call of sign or verify is waiting for the service
Idle == verifyCall.pc = "idle" /\ signCall.pc = "idle"

\* the number of calls waiting for the service
Pending ==
    (IF verifyCall.pc = "await" THEN 1 ELSE 0) + (IF signCall.pc = "await" THEN 1 ELSE 0)

\* the envelope becomes r.e, and last records the call: was is verified
\* before it
Apply(op, arg, r) ==
    /\ signed' = r.e.signed
    /\ params' = r.e.params
    /\ verified' = r.e.verified
    /\ last' = [op |-> op, arg |-> arg, res |-> r.res, ret |-> r.ret, was |-> verified]

AddSigned(obj) ==
    /\ Alive
    /\ Apply("addSigned", obj, addSigned(This, obj))
    /\ UNCHANGED <<ctor, verifyCall, signCall>>

AddParams(obj) ==
    /\ Alive
    /\ Apply("addParams", obj, addParams(This, obj))
    /\ UNCHANGED <<ctor, verifyCall, signCall>>

ClearSig ==
    /\ Alive
    /\ Apply("clearSig", Undefined, Ok(clearSig(This), Undefined))
    /\ UNCHANGED <<ctor, verifyCall, signCall>>

SetAuthorAlias(alias) ==
    /\ Alive
    /\ Apply("set authorAlias", Str(alias), setAuthorAlias(This, alias))
    /\ UNCHANGED <<ctor, verifyCall, signCall>>

SetSignature(sig) ==
    /\ Alive
    /\ Apply("set signature", Str(sig), setSignature(This, sig))
    /\ UNCHANGED <<ctor, verifyCall, signCall>>

Uuid ==
    /\ Alive
    /\ Apply("uuid", Undefined, uuid(This))
    /\ UNCHANGED <<ctor, verifyCall, signCall>>

Compare(that) ==
    /\ Alive
    /\ Apply("compare", that, compare(This, that))
    /\ UNCHANGED <<ctor, verifyCall, signCall>>

VerifySync(earth, outcome) ==
    /\ Alive
    /\ Apply("verifySync", [earth |-> earth, outcome |-> outcome],
             verifySync(This, earth, outcome))
    /\ UNCHANGED <<ctor, verifyCall, signCall>>

\* m after the edit of a caller
Edited(m, edit) ==
    IF edit.val = Undefined
    THEN [k \in DOMAIN m \ {edit.key} |-> m[k]]
    ELSE Put(m, edit.key, edit.val)

\* the caller reads the payload accessor
Payload ==
    /\ Alive
    /\ Apply("payload", Undefined, Ok(This, payload(This)))
    /\ UNCHANGED <<ctor, verifyCall, signCall>>

\* the caller edits the snapshot it has just read; the edit reaches a bucket
\* of the envelope when the snapshot holds that very object
MutatePayload(edit) ==
    /\ Alive
    /\ last.op = "payload"
    /\ LET snap == last.ret
           hit(bucket, m) == IF snap.own /\ edit.bucket = bucket THEN Edited(m, edit) ELSE m
       IN  /\ signed' = hit("signed", signed)
           /\ params' = hit("params", params)
           /\ verified' = verified
           /\ last' = [op |-> "mutate payload", arg |-> edit, res |-> "ok",
                       ret |-> [snap EXCEPT ![edit.bucket] = Edited(@, edit)],
                       was |-> verified]
    /\ UNCHANGED <<ctor, verifyCall, signCall>>

\* sign(earth) runs to its await; one call of sign is modelled in flight at a
\* time
SignStart(earth) ==
    /\ Alive
    /\ signCall.pc = "idle"
    /\ Pending < MaxPending
    /\ LET r == signStart(This, earth)
       IN  /\ Apply("sign", [earth |-> earth], r)
           /\ signCall' = IF r.res = "pending"
                          THEN [pc |-> "await", sent |-> signed]
                          ELSE NoCall
    /\ UNCHANGED <<ctor, verifyCall>>

\* earth.signData settles and sign runs to its end
SignReturn(outcome) ==
    /\ signCall.pc = "await"
    /\ Apply("sign", [outcome |-> outcome, sent |-> signCall.sent],
             signReturn(This, outcome))
    /\ signCall' = NoCall
    /\ UNCHANGED <<ctor, verifyCall>>

\* verify(earth) runs to its await; one call of verify is modelled in flight
\* at a time
VerifyStart(earth) ==
    /\ Alive
    /\ verifyCall.pc = "idle"
    /\ Pending < MaxPending
    /\ LET r == verifyStart(This, earth)
       IN  /\ Apply("verify", [earth |-> earth], r)
           /\ verifyCall' = IF r.res = "pending"
                            THEN [pc |-> "await", claimedAlias |-> r.ret]
                            ELSE NoCall
    /\ UNCHANGED <<ctor, signCall>>

\* earth.verifyData settles and verify runs to its end
VerifyReturn(outcome) ==
    /\ verifyCall.pc = "await"
    /\ Apply("verify", [outcome |-> outcome, claimedAlias |-> verifyCall.claimedAlias],
             verifyReturn(This, verifyCall.claimedAlias, outcome))
    /\ verifyCall' = NoCall
    /\ UNCHANGED <<ctor, signCall>>

\* a call on the envelope
Call ==
    \/ \E obj \in SignedArgs : AddSigned(obj)
    \/ \E obj \in ParamsArgs : AddParams(obj)
    \/ ClearSig
    \/ \E alias \in AliasLabels : SetAuthorAlias(alias)
    \/ \E sig \in SigArgs : SetSignature(sig)
    \/ Uuid
    \/ \E that \in ThatArgs : Compare(that)
    \/ \E earth \in EarthArgs, outcome \in VerifyOutcomes : VerifySync(earth, outcome)
    \/ \E earth \in EarthArgs : SignStart(earth)
    \/ \E earth \in EarthArgs : VerifyStart(earth)
    \/ Payload
    \/ \E edit \in SnapshotEdits : MutatePayload(edit)

\* the continuation of a call that waits for the service
Resume ==
    \/ \E outcome \in SignOutcomes : SignReturn(outcome)
    \/ \E outcome \in VerifyOutcomes : VerifyReturn(outcome)

\* calls may be made while sign or verify waits for the service
Next == Call \/ Resume

Spec == Init /\ [][Next]_vars

\* the calls run one at a time: none is made while sign or verify waits
SeqNext ==
    \/ \E obj \in SignedArgs : Idle /\ AddSigned(obj)
    \/ \E obj \in ParamsArgs : Idle /\ AddParams(obj)
    \/ Idle /\ ClearSig
    \/ \E alias \in AliasLabels : Idle /\ SetAuthorAlias(alias)
    \/ \E sig \in SigArgs : Idle /\ SetSignature(sig)
    \/ Idle /\ Uuid
    \/ \E that \in ThatArgs : Idle /\ Compare(that)
    \/ \E earth \in EarthArgs, outcome \in VerifyOutcomes : Idle /\ VerifySync(earth, outcome)
    \/ \E earth \in EarthArgs : Idle /\ SignStart(earth)
    \/ \E earth \in EarthArgs : Idle /\ VerifyStart(earth)
    \/ Idle /\ Payload
    \/ \E edit \in SnapshotEdits : Idle /\ MutatePayload(edit)
    \/ Resume

SeqSpec == Init /\ [][SeqNext]_vars

-----------------------------------------------------------------------------
(* the claims *)

\* a step that is a successful sign, verify or verifySync
SuccessfulCall == last'.op \in {"sign", "verify", "verifySync"} /\ last'.res = "ok"

\* C1: verified is false after construction; it becomes true only in a step
\* that is a successful sign, verify or verifySync; and while it stays true,
\* no step other than such a call changes the signed map or the alias and sig
\* params (the calls run one at a time).
C1_VerifiedLifecycle ==
    /\ [](last.op = "new" => ~verified)
    /\ [][/\ (~verified /\ verified') => SuccessfulCall
          /\ (verified /\ verified' /\ ~SuccessfulCall) =>
                /\ signed' = signed
                /\ Get(params', K_alias) = Get(params, K_alias)
                /\ Get(params', K_sig) = Get(params, K_sig)]_vars

\* a successful call has just set verified
C1_Witness ==
    /\ verified /\ ~last.was
    /\ last.op \in {"sign", "verify", "verifySync"} /\ last.res = "ok"

\* C2: addSigned with a non-empty map on a verified envelope returns normally,
\* merges every given key into the signed map, overwriting, and leaves
\* verified false and the sig param undefined; addSigned with an empty map
\* changes neither signed, params nor verified.
C2_AddSigned ==
    [][\A obj \in SignedArgs :
        (last'.op = "addSigned" /\ last'.arg = obj) =>
            /\ last'.res = "ok"
            /\ (verified /\ DOMAIN obj # {}) =>
                  /\ DOMAIN signed' = DOMAIN signed \cup DOMAIN obj
                  /\ \A k \in DOMAIN obj : signed'[k] = obj[k]
                  /\ \A k \in DOMAIN signed \ DOMAIN obj : signed'[k] = signed[k]
                  /\ ~verified'
                  /\ Get(params', K_sig) = Undefined
            /\ DOMAIN obj = {} =>
                  /\ signed' = signed
                  /\ params' = params
                  /\ verified' = verified]_vars

\* addSigned with a non-empty map has run on a verified envelope that held a
\* signature
C2_Witness ==
    /\ last.op = "addSigned" /\ DOMAIN last.arg # {} /\ last.was
    /\ ~verified /\ Get(params, K_sig) = Undefined

\* C3: addParams with a map that has the key alias or sig returns normally and
\* leaves verified false and every supplied key with its supplied value;
\* addParams with neither key merges the keys and leaves verified and sig as
\* they were.
C3_AddParams ==
    [][\A obj \in ParamsArgs :
        (last'.op = "addParams" /\ last'.arg = obj) =>
            /\ last'.res = "ok"
            /\ \A k \in DOMAIN obj : Get(params', k) = obj[k]
            /\ \A k \in DOMAIN params \ DOMAIN obj : Get(params', k) = params[k]
            /\ IF K_alias \in DOMAIN obj \/ K_sig \in DOMAIN obj
               THEN ~verified'
               ELSE verified' = verified /\ Get(params', K_sig) = Get(params, K_sig)]_vars

\* this step is verifySync, or the continuation of verify, on an envelope with
\* a signature, where the service gave outcome
VerifyAnswered(outcome) ==
    \/ /\ last'.op = "verifySync"
       /\ last'.arg = [earth |-> TRUE, outcome |-> outcome]
       /\ Truthy(signature(This))
    \/ /\ last'.op = "verify"
       /\ verifyCall.pc = "await"
       /\ last'.arg = [outcome |-> outcome, claimedAlias |-> verifyCall.claimedAlias]

\* C4 as claimed: verify and verifySync on an envelope that has a signature
\* and an alias param fail with the author-mismatch error when the service
\* resolves another alias, and leave verified and params as they were.
C4_AnyClaimedAlias ==
    [][\A outcome \in VerifyOutcomes :
        (/\ VerifyAnswered(outcome)
         /\ outcome.ok
         /\ Get(params, K_alias) # Undefined
         /\ Get(params, K_alias) # outcome.alias) =>
            /\ last'.res = "AuthorMismatch"
            /\ verified' = verified
            /\ params' = params]_vars

\* C4, amended: verify and verifySync on an envelope that has a signature and
\* a non-empty alias param fail with the author-mismatch error when the
\* service resolves another alias, and leave verified and params as they were.
C4_MismatchRejection ==
    [][\A outcome \in VerifyOutcomes :
        (/\ VerifyAnswered(outcome)
         /\ outcome.ok
         /\ Truthy(Get(params, K_alias))
         /\ Get(params, K_alias) # outcome.alias) =>
            /\ last'.res = "AuthorMismatch"
            /\ verified' = verified
            /\ params' = params]_vars

\* a verification has failed on an alias other than the claimed one, which
\* the params still hold
C4_Witness ==
    /\ last.op \in {"verify", "verifySync"}
    /\ last.res = "AuthorMismatch"
    /\ Truthy(Get(params, K_alias))
    /\ last.arg.outcome.ok
    /\ last.arg.outcome.alias # Get(params, K_alias)

\* C5: verify and verifySync on an envelope that has a signature and no alias
\* param, when the service resolves alias a, return the envelope, set
\* verified, set params.alias to a, and change no other param and no signed
\* field.
C5_AdoptionOnVerify ==
    [][\A outcome \in VerifyOutcomes :
        (/\ VerifyAnswered(outcome)
         /\ outcome.ok
         /\ Get(params, K_alias) = Undefined) =>
            /\ last'.res = "ok"
            /\ last'.ret = [signed |-> signed', params |-> params', verified |-> verified']
            /\ verified'
            /\ params' = Put(params, K_alias, outcome.alias)
            /\ signed' = signed]_vars

\* verify has adopted the resolved alias on an envelope that claimed none
C5_Witness ==
    /\ last.op = "verify" /\ last.res = "ok"
    /\ last.arg.claimedAlias = Undefined
    /\ verified
    /\ Get(params, K_alias) = last.arg.outcome.alias
    /\ Truthy(signature(This))

\* C6: a call of verify or sign that waits for the service completes whatever
\* was done to the envelope in the meantime: when the service succeeds, the
\* continuation of sign merges the returned params and sets verified, and the
\* continuation of verify, unless the alias it read before the call differs
\* from the resolved one, writes the resolved alias and sets verified.
C6_PendingCallCompletes ==
    [][/\ (verifyCall.pc = "await" /\ last'.op = "verify") =>
            LET outcome == last'.arg.outcome
                claimedAlias == verifyCall.claimedAlias
            IN  (outcome.ok /\ (~Truthy(claimedAlias) \/ claimedAlias = outcome.alias)) =>
                    /\ last'.res = "ok"
                    /\ verified'
                    /\ params' = Put(params, K_alias, outcome.alias)
       /\ (signCall.pc = "await" /\ last'.op = "sign") =>
            LET outcome == last'.arg.outcome
            IN  outcome.ok =>
                    /\ last'.res = "ok"
                    /\ verified'
                    /\ params' = Merge(params, outcome.params)]_vars

\* verify has completed on an envelope whose signature was cleared while it
\* waited: verified is true and there is no signature
C6_Witness ==
    /\ last.op = "verify" /\ last.res = "ok"
    /\ verified
    /\ signature(This) = Undefined

\* C7: every value of the signed map is a string.
C7_SignedValuesAreStrings == \A k \in DOMAIN signed : TypeOf(signed[k]) = "string"

\* C8: the stored sig never starts with '0x', and the envelope built from the
\* URI "_signed_name=hi&_params_sig=0x<40 hex>" has the keys {name}, name "hi"
\* and the forty hex characters as its signature.
C8_SigStoredWithoutPrefix ==
    /\ signature(This).t = "string" => Substring(signature(This).s, 0, 2) # <<"0", "x">>
    /\ (last.op = "new" /\ last.arg = Str(UriScenario)) =>
          /\ DOMAIN signed = {K_name}
          /\ signed[K_name] = Str(S_hi)
          /\ signature(This) = Str(Hex40)

\* C9: construction from a value whose type is not object, string or
\* undefined (a number, a boolean) fails with the invalid-input error and gives no envelope.
C9_OtherKindsRejected ==
    (last.op = "new" /\ TypeOf(last.arg) \notin {"object", "string", "undefined"}) =>
        (last.res = "InvalidInput" /\ ~Alive)

\* C10: the identity accessor fails with the no-signature error whenever the
\* sig param is undefined, and what it returns is a non-empty string; compare
\* fails with that error whenever either envelope has no signature.
C10_IdentityNeedsSignature ==
    /\ (last.op = "uuid" /\ signature(This) = Undefined) => last.res = "NoSignature"
    /\ (last.op = "uuid" /\ last.res = "ok") =>
          (last.ret.t = "string" /\ last.ret.s # <<>>)
    /\ (last.op = "compare"
        /\ (signature(This) = Undefined \/ signature(last.arg) = Undefined)) =>
          last.res = "NoSignature"

\* two envelopes without a signature have been compared
C10_Witness ==
    /\ last.op = "compare"
    /\ signature(This) = Undefined
    /\ signature(last.arg) = Undefined
    /\ last.res = "NoSignature"


\* C11: verify and verifySync without a service fail with the missing-service
\* error, whatever the signature; with a service and no signature they fail
\* with the missing-signature error, whatever the service would answer, no
\* call waits for the service, and signed, params and verified are unchanged.
C11_PreconditionOrder ==
    [][(last'.op \in {"verify", "verifySync"} /\ "earth" \in DOMAIN last'.arg) =>
        /\ ~last'.arg.earth => last'.res = "MissingService"
        /\ (last'.arg.earth /\ ~Truthy(signature(This))) =>
              /\ last'.res = "MissingSignature"
              /\ verifyCall'.pc = "idle"
              /\ signed' = signed /\ params' = params /\ verified' = verified]_vars

\* verify has failed on a missing signature with a service at hand, and no
\* call waits for the service
C11_Witness ==
    /\ last.op = "verify" /\ last.arg = [earth |-> TRUE]
    /\ last.res = "MissingSignature"
    /\ verifyCall.pc = "idle"
    /\ signature(This) = Undefined


\* C12: when signData succeeds, sign writes every returned param over the
\* params map and keeps the other params, leaves the signed map, sets verified
\* and returns the envelope; when signData fails, sign fails with the signing
\* error, merges nothing and leaves verified as it was.
C12_Sign ==
    [][(signCall.pc = "await" /\ last'.op = "sign") =>
        LET outcome == last'.arg.outcome
        IN  IF outcome.ok
            THEN /\ last'.res = "ok"
                 /\ DOMAIN params' = DOMAIN params \cup DOMAIN outcome.params
                 /\ \A k \in DOMAIN outcome.params : params'[k] = outcome.params[k]
                 /\ \A k \in DOMAIN params \ DOMAIN outcome.params : params'[k] = params[k]
                 /\ signed' = signed
                 /\ verified'
                 /\ last'.ret = [signed |-> signed', params |-> params', verified |-> verified']
            ELSE /\ last'.res = "SigningFailed"
                 /\ params' = params
                 /\ signed' = signed
                 /\ verified' = verified]_vars

\* sign has succeeded on an envelope that held an alias the service did not
\* return: the alias is kept beside the returned signature
C12_Witness ==
    /\ last.op = "sign" /\ last.res = "ok"
    /\ verified
    /\ K_alias \notin DOMAIN last.arg.outcome.params
    /\ Get(params, K_alias) = AliasB
    /\ Get(params, K_sig) = last.arg.outcome.params[K_sig]


\* a step that is addSigned, addParams, clearSig or one of the two setters
LocalMutation ==
    last'.op \in {"addSigned", "addParams", "clearSig", "set authorAlias", "set signature"}

\* C13 as claimed: no addSigned, addParams, clearSig or setter changes
\* params.address; only a successful sign changes it.
C13_AddressOnlyFromService ==
    [][/\ LocalMutation => Get(params', K_address) = Get(params, K_address)
       /\ Get(params', K_address) # Get(params, K_address) =>
             (last'.op = "sign" /\ last'.res = "ok")]_vars

\* C13, amended: params.address changes only in a successful sign or in an
\* addParams whose map has the key address; addSigned, clearSig, the setters
\* and every other addParams leave it.
C13_AddressFrame ==
    [][Get(params', K_address) # Get(params, K_address) =>
          \/ last'.op = "sign" /\ last'.res = "ok"
          \/ last'.op = "addParams" /\ K_address \in DOMAIN last'.arg]_vars

\* a local mutation other than addParams has run on an envelope that holds an
\* address, and the address is still there
C13_Witness ==
    /\ last.op \in {"addSigned", "clearSig", "set authorAlias", "set signature"}
    /\ last.res = "ok"
    /\ Get(params, K_address) = Addr


\* what verify(earth) gives on the envelope e when nothing runs between its
\* call and its continuation and the service gives outcome
VerifyUninterrupted(e, earth, outcome) ==
    LET started == verifyStart(e, earth)
    IN  IF started.res = "pending" THEN verifyReturn(e, started.ret, outcome) ELSE started

\* C14: on every envelope, with or without a service and for every answer of
\* the service, verifySync ends as an uninterrupted verify does: the same
\* success or error, the same signed, params and verified.
C14_VerifySyncAsVerify ==
    [][last'.op = "verifySync" =>
        LET v == VerifyUninterrupted(This, last'.arg.earth, last'.arg.outcome)
        IN  /\ last'.res = v.res
            /\ signed' = v.e.signed
            /\ params' = v.e.params
            /\ verified' = v.e.verified]_vars

\* verifySync has succeeded and holds the resolved alias
C14_Witness ==
    /\ last.op = "verifySync" /\ last.res = "ok"
    /\ verified
    /\ Get(params, K_alias) = last.arg.outcome.alias


\* the name k holds a bucket prefix
HoldsPrefix(k) == IndexOf(k, K_signed) # -1 \/ IndexOf(k, K_params) # -1

\* the envelope built from the URI encoding of the payload of e
FromURI(e) == Constructor(Str(uri(e)))

\* C15: for an envelope whose payload has non-empty buckets, the envelope
\* built from the URI encoding of its payload has an equal payload when no
\* field name holds a bucket prefix, and otherwise a payload that holds every
\* entry of the original, the extra entries being those of the names that
\* hold a prefix.
C15_UriRoundTrip ==
    (Alive /\ DOMAIN payload(This).signed # {} /\ DOMAIN payload(This).params # {}) =>
        LET p == payload(This)
            r == FromURI(This)
            q == payload(r.e)
            names == DOMAIN p.signed \cup DOMAIN p.params
        IN  /\ r.res = "ok"
            /\ (\A k \in names : ~HoldsPrefix(k)) =>
                  (q.signed = p.signed /\ q.params = p.params)
            /\ \A k \in DOMAIN p.signed : Get(q.signed, k) = p.signed[k]
            /\ \A k \in DOMAIN p.params : Get(q.params, k) = p.params[k]
            /\ \A k \in (DOMAIN q.signed \ DOMAIN p.signed) \cup (DOMAIN q.params \ DOMAIN p.params) :
                  HoldsPrefix(k)


\* C16: the payload accessor returns a copy holding both buckets. Reading it
\* leaves the envelope as it was and returns the two buckets as they are; an
\* edit of the returned snapshot (a key added, changed or removed, in either
\* bucket) leaves the signed map, the params map and the verified flag as
\* they were, so a second read equals the first as it was read.
C16_PayloadIsACopy ==
    [][ /\ last'.op = "payload" =>
            /\ signed' = signed /\ params' = params /\ verified' = verified
            /\ last'.ret.signed = JsonCopy(signed)
            /\ last'.ret.params = JsonCopy(params)
        /\ last'.op = "mutate payload" =>
            /\ signed' = signed /\ params' = params /\ verified' = verified
            /\ JsonCopy(signed') = last.ret.signed
            /\ JsonCopy(params') = last.ret.params
      ]_vars

\* the caller has deleted sig from the snapshot of a verified envelope, which
\* still holds it
C16_Witness ==
    /\ verified
    /\ last.op = "mutate payload"
    /\ last.arg.bucket = "params" /\ last.arg.key = K_sig
    /\ K_sig \notin DOMAIN last.ret.params
    /\ Truthy(signature(This))


\* the routing of one decoded key as C17 words it: under each prefix the key
\* contains, the value goes into that bucket under what follows the
\* occurrence of the prefix
StripThroughPrefix(buckets, key, val) ==
    [prefix \in DOMAIN buckets |->
        IF IndexOf(key, prefix) # -1
        THEN Put(buckets[prefix],
                 Substring(key, IndexOf(key, prefix) + Len(prefix), Len(key)), Str(val))
        ELSE buckets[prefix]]

RECURSIVE StripThroughPrefixAll(_, _)
\* that routing over the decoded pairs of a query, in order
StripThroughPrefixAll(segs, buckets) ==
    IF segs = <<>> THEN buckets
    ELSE LET kvp == Split(Head(segs), "=")
         IN  StripThroughPrefixAll(Tail(segs),
                 StripThroughPrefix(buckets, DecodeURIComponent(kvp, 1).s,
                                    DecodeURIComponent(kvp, 2).s))

\* the query part of a URI string, split at '&'
QuerySegments(data) ==
    LET i0 == IndexOf(data, <<"?">>)
        i1 == IndexOf(data, <<"#">>)
        i  == IF i0 > i1 THEN i0 ELSE i1
    IN  Split(IF i > -1 THEN Slice(data, i + 1) ELSE data, "&")

\* C17: an envelope built from a URI string holds, for every decoded key and
\* every bucket prefix the key contains at a position p, the value under
\* key.substring(p + length(prefix)) in that bucket; a key with both prefixes
\* is in both buckets and a key with neither is in none.
C17_UriKeyRouting ==
    (last.op = "new" /\ TypeOf(last.arg) = "string" /\ last.res = "ok") =>
        LET want == StripThroughPrefixAll(QuerySegments(last.arg.s),
                                          (K_signed :> EmptyMap) @@ (K_params :> EmptyMap))
        IN  signed = want[K_signed] /\ params = want[K_params]


\* C18: an envelope built from an object takes each bucket the object has
\* and leaves each missing one empty (an object with the params bucket alone
\* gives those params and an empty signed map); an object with neither bucket
\* is the signed map, with empty params; the payload has both buckets.
C18_ObjectForm ==
    (last.op = "new" /\ last.arg.t = "object") =>
        LET obj == last.arg.o
            bucket(name) == IF name \in DOMAIN obj THEN obj[name].o ELSE EmptyMap
        IN  /\ last.res = "ok"
            /\ IF K_signed \in DOMAIN obj \/ K_params \in DOMAIN obj
               THEN /\ signed = StringifySigned(bucket(K_signed))
                    /\ params = bucket(K_params)
               ELSE /\ signed = StringifySigned(obj)
                    /\ params = EmptyMap
            /\ {"signed", "params"} \subseteq DOMAIN payload(This)


\* C19: with calls run one at a time and a service whose signing result
\* holds a non-empty sig, a verified envelope holds a non-empty sig param, and
\* the identity accessor does not throw on it.
C19_VerifiedHasSig ==
    verified =>
        /\ TypeOf(signature(This)) = "string"
        /\ signature(This).s # <<>>
        /\ uuid(This).res = "ok"

\* the identity of a verified envelope has just been read
C19_Witness ==
    /\ verified
    /\ last.op = "uuid" /\ last.res = "ok"
    /\ last.ret = Str(getMessageUUID(signature(This).s))


\* C20: an operation that ends in an error (sign, verify, verifySync,
\* addParams, the identity accessor, compare) leaves the signed map, the
\* params map and the verified flag as they were before the call; a call that
\* waits for the service has changed nothing either. So a verified envelope
\* is still verified after a verify that fails.
C20_ErrorLeavesEnvelope ==
    [][ last'.res # "ok" =>
            signed' = signed /\ params' = params /\ verified' = verified
      ]_vars

\* a verify has just failed on the service's answer, on an envelope that was
\* verified before the call and still is
C20_Witness ==
    /\ last.op = "verify"
    /\ last.res \in {"AuthorMismatch", "VerificationFailed"}
    /\ last.was
    /\ verified

====
